---- MODULE Spec2Model ----
(***************************************************************************)
(* Collection / CollectionIndex of upstash-as-a-db (src/src/index.ts) and  *)
(* its Tokenizer (src/src/tokenization.ts) over a Redis store whose        *)
(* commands are atomic one by one.  Every action below is one store        *)
(* command together with the local code that runs before the next one.     *)
(***************************************************************************)
EXTENDS Integers, Sequences, FiniteSets

VARIABLES
  defaultTTL,   \* Collection.defaultTTL: {} is null, {t} is t seconds
  tokenizer,    \* TRUE iff the Collection was built with enableEncryption
  indexes,      \* Collection.indexes, in push order
  store,        \* Redis: key (prefix+id) -> stored value, Null when absent
  ttl,          \* Redis: key -> {} (no expiry) or {t}
  idx,          \* Redis: index set key -> set of member ids
  pc,           \* per caller: where its call in flight stands
  loc,          \* per caller: locals of the call in flight
  budget,       \* number of calls the callers may still issue
  ev,           \* what the last step did (the set it ran, the call it returned)
  h,            \* history: which kinds of calls have run so far
  u             \* history of update calls

vars == <<defaultTTL, tokenizer, indexes, store, ttl, idx, pc, loc, budget, ev, h, u>>

-----------------------------------------------------------------------------
(* Bounds of the model *)

MaxCalls == 3
MaxIndexCalls == 3
MaxUpdateCalls == 4
MaxRetryCalls == 6
MaxRetryUpdates == 2
MaxReadCalls == 3
MaxIndexes == 1

Procs == {1, 2}
Ids == {"a"}
TTLs == {1, 2}
IndexFields == {"F"}

(* Program constant: the retry budget of update, `_retry < 3` *)
RetryBudget == 3

-----------------------------------------------------------------------------
(* JavaScript values of the indexed field F: a type and the string the     *)
(* template literal `${value}` renders.                                    *)

Num1 == [t |-> "number", s |-> "1"]
Str1 == [t |-> "string", s |-> "1"]
Str2 == [t |-> "string", s |-> "2"]
Arr1 == [t |-> "object", s |-> "1"]

FVals == {Num1, Str1, Str2, Arr1}
InputNs == {0}

Records == [id : Ids, F : FVals, n : InputNs]

(* `${data[indexOn]}` *)
ToString(v) == v.s

(* a !== b, where a was deserialized from the store and b is the caller's: *)
(* two objects are never the same reference, primitives compare by type    *)
(* and value                                                               *)
StrictNotEqual(a, b) ==
  IF a.t = "object" \/ b.t = "object" THEN TRUE ELSE a # b

(* Values handed to and returned by the store *)
Null == [kind |-> "null"]
Plain(r) == [kind |-> "object", of |-> r]
Cipher(r) == [kind |-> "cipher", of |-> r]

(* lodash isEqual: deep structural equality *)
IsEqual(a, b) == a = b

(* Results of code that may throw *)
Ret(v) == [threw |-> FALSE, val |-> v]
Throw(e) == [threw |-> TRUE, err |-> e]

-----------------------------------------------------------------------------
(* Tokenizer *)

(* JSON.stringify + AES encrypt: an opaque string *)
ToToken(v) == Cipher(v.of)

(* AES decrypt + JSON.parse; anything but a ciphertext string throws *)
FromToken(v) ==
  IF v.kind = "cipher" THEN Ret(Plain(v.of)) ELSE Throw("decode")

(* Collection.decrypt *)
Decrypt(v) == IF tokenizer THEN FromToken(v) ELSE Ret(v)

(* Collection.encrypt *)
Encrypt(v) == IF tokenizer THEN ToToken(v) ELSE v

(* Mutant: a get that decodes whether or not encryption is enabled *)
GetOfDecoded(data) ==
  IF data = Null THEN Ret(Null) ELSE FromToken(data)

(* Collection.get / getMany, lines 54-55 and 64-65: what is returned for   *)
(* the value the store holds at the key                                    *)
GetOf(data) ==
  IF data = Null THEN Ret(Null) ELSE Decrypt(data)

(* Collection.getMany on a non-empty list of ids: one mget, then the       *)
(* mapping of lines 63-66, which throws when a decrypt does                *)
GetManyOf(ids) ==
  LET items == [id \in ids |-> GetOf(store[id])] IN
  IF \E id \in ids : items[id].threw
  THEN Throw("decode")
  ELSE Ret([id \in ids |-> items[id].val])

(* Mutant: getItems without the filter *)
KeepNull(items) == {items[id] : id \in DOMAIN items}

(* items.filter((item) => item !== null) *)
FilterNotNull(items) ==
  {items[id] : id \in {i \in DOMAIN items : items[i] # Null}}

-----------------------------------------------------------------------------
(* Index keys and pipeline commands *)

IndexKey(f, r) == <<f, ToString(r[f])>>

Keys == {<<f, ToString(v)>> : f \in IndexFields, v \in FVals}

Sadd(k, m) == [cmd |-> "sadd", key |-> k, member |-> m]
Srem(k, m) == [cmd |-> "srem", key |-> k, member |-> m]

ApplyCmd(s, c) ==
  IF c.cmd = "sadd"
  THEN [s EXCEPT ![c.key] = @ \cup {c.member}]
  ELSE [s EXCEPT ![c.key] = @ \ {c.member}]

-----------------------------------------------------------------------------
(* Collection.set, lines 74-117: what the code does with the value the     *)
(* get-and-set returned.  out is "ok" or the error thrown; queue is the    *)
(* pipeline handed to exec (empty when exec is never reached).             *)

SetCore(prev, data, exp) ==
  LET old == Decrypt(prev) IN
  IF old.threw THEN [out |-> old.err, queue |-> <<>>]
  ELSE IF exp # Null /\ ~IsEqual(old.val, exp)
  THEN [out |-> "concurrent", queue |-> <<>>]
  ELSE IF indexes = <<>> THEN [out |-> "ok", queue |-> <<>>]
  ELSE
    LET adds == [i \in 1..Len(indexes) |->
                   Sadd(IndexKey(indexes[i], data), data.id)]
    IN
    IF old.val = Null THEN [out |-> "ok", queue |-> adds]
    ELSE
      LET oldData == Decrypt(old.val) IN
      IF oldData.threw THEN [out |-> oldData.err, queue |-> <<>>]
      ELSE
        LET changed == SelectSeq(indexes,
                         LAMBDA f : StrictNotEqual(oldData.val.of[f], data[f]))
            rems == [i \in 1..Len(changed) |->
                       Srem(IndexKey(changed[i], oldData.val.of), data.id)]
        IN [out |-> "ok", queue |-> adds \o rems]

(* Mutant: the write without keepTtl, which clears the expiry *)
DropTtl(id) == [ttl EXCEPT ![id] = {}]

(* The expiry of the key after redis.set(..., {get: true, keepTtl: true}) *)
KeepTtl(id) == ttl

(* Mutant: setex without the check for installed indexes *)
RunSetexUnchecked(data, t) ==
  [out |-> "ok", queue |-> <<>>,
   store2 |-> [store EXCEPT ![data.id] = Encrypt(Plain(data))],
   ttl2 |-> [ttl EXCEPT ![data.id] = {t}]]

(* Collection.setex: its first (and only) round trip *)
RunSetex(data, t) ==
  IF indexes # <<>>
  THEN [out |-> "config", queue |-> <<>>, store2 |-> store, ttl2 |-> ttl]
  ELSE [out |-> "ok", queue |-> <<>>,
        store2 |-> [store EXCEPT ![data.id] = Encrypt(Plain(data))],
        ttl2 |-> [ttl EXCEPT ![data.id] = {t}]]

(* Mutant: a set that puts the previous token back when it throws *)
RunSetRollingBack(data, exp) ==
  IF defaultTTL # {}
  THEN RunSetex(data, CHOOSE t \in defaultTTL : TRUE)
  ELSE
    LET core == SetCore(store[data.id], data, exp) IN
    [out |-> core.out, queue |-> core.queue,
     store2 |-> IF core.out = "ok"
                THEN [store EXCEPT ![data.id] = Encrypt(Plain(data))]
                ELSE store,
     ttl2 |-> KeepTtl(data.id)]

(* Collection.set up to the point where the pipeline is handed to exec *)
RunSet(data, exp) ==
  IF defaultTTL # {}
  THEN RunSetex(data, CHOOSE t \in defaultTTL : TRUE)
  ELSE
    LET core == SetCore(store[data.id], data, exp) IN
    [out |-> core.out, queue |-> core.queue,
     store2 |-> [store EXCEPT ![data.id] = Encrypt(Plain(data))],
     ttl2 |-> KeepTtl(data.id)]

-----------------------------------------------------------------------------
(* Bookkeeping *)

NoLoc ==
  [id |-> "-", item |-> Null, retry |-> 0, queue |-> <<>>, op |-> "-",
   members |-> {}, arg |-> <<>>]

NoSet == [ran |-> FALSE]
SetRan(data, exp, r) ==
  [ran |-> TRUE, data |-> data, exp |-> exp, out |-> r.out,
   queued |-> Len(r.queue)]

Event(op, set, ret) == [op |-> op, set |-> set, ret |-> ret]

(* What a read returned: the key or index value asked for, "ok" or the     *)
(* error thrown, and the value returned                                    *)
ReadEvent(op, arg, r) ==
  [op |-> op, set |-> NoSet, arg |-> arg,
   ret |-> IF r.threw THEN r.err ELSE "ok",
   val |-> IF r.threw THEN Null ELSE r.val]

(* The call has not returned yet *)
NotYet == Throw("none")

(* A call threw before it ran a set: the error, and the value of _retry *)
Thrown(op, retry, err) ==
  [op |-> op, set |-> NoSet, ret |-> err, retry |-> retry]

(* Callers are interchangeable: a new call is issued by the first idle one *)
CanCall(p) ==
  /\ pc[p] = "idle"
  /\ \A q \in Procs : pc[q] = "idle" => p <= q
  /\ budget > 0

OthersBusy(p) == \E q \in Procs \ {p} : pc[q] # "idle"

AllIdle == \A p \in Procs : pc[p] = "idle"

(* The record held at a key, whatever its encoding *)
Stored(id) == IF store[id] = Null THEN Null ELSE Plain(store[id].of)

(* h after caller p issues a call; plainOk says the call is a set without *)
(* expectedPrevious that did not throw                                     *)
Issued(p, plainOk, strOk, writes) ==
  [plain |-> h.plain /\ plainOk,
   overlap |-> h.overlap \/ OthersBusy(p),
   strOnly |-> h.strOnly /\ strOk,
   wrote |-> h.wrote \/ writes]

(* u after a direct write to the store that is not part of an update *)
Disturb == IF u.started > 0 THEN [u EXCEPT !.disturbed = TRUE] ELSE u

-----------------------------------------------------------------------------
(* The state after `new Collection(redis, meta)` on an empty store, with    *)
(* the callers allowed b calls.  meta.defaultTTL || null and               *)
(* meta.enableEncryption are the constructor's inputs.                     *)
Constructed(b) ==
  /\ defaultTTL \in {{}} \cup {{t} : t \in TTLs}
  /\ tokenizer \in BOOLEAN
  /\ indexes = <<>>
  /\ store = [i \in Ids |-> Null]
  /\ ttl = [i \in Ids |-> {}]
  /\ idx = [k \in Keys |-> {}]
  /\ pc = [p \in Procs |-> "idle"]
  /\ loc = [p \in Procs |-> NoLoc]
  /\ budget = b
  /\ ev = Event("init", NoSet, "none")
  /\ h = [plain |-> TRUE, overlap |-> FALSE, strOnly |-> TRUE, wrote |-> FALSE]
  /\ u = [started |-> 0, ok |-> 0, base |-> 0, disturbed |-> FALSE]

Init == Constructed(MaxCalls)

(* Mutant: addIndex without the check for a default TTL *)
AddIndexUnchecked ==
  /\ Len(indexes) < MaxIndexes
  /\ \E f \in IndexFields :
       /\ indexes' = Append(indexes, f)
       /\ ev' = Event("addIndex", NoSet, "ok")
       /\ h' = [h EXCEPT !.plain = @ /\ ~h.wrote]
  /\ UNCHANGED <<defaultTTL, tokenizer, store, ttl, idx, pc, loc, budget, u>>

(* Collection.addIndex *)
AddIndex ==
  /\ Len(indexes) < MaxIndexes
  /\ \E f \in IndexFields :
       IF defaultTTL # {}
       THEN /\ indexes' = indexes
            /\ ev' = Event("addIndex", NoSet, "config")
            /\ h' = h
       ELSE /\ indexes' = Append(indexes, f)
            /\ ev' = Event("addIndex", NoSet, "ok")
            /\ h' = [h EXCEPT !.plain = @ /\ ~h.wrote]
  /\ UNCHANGED <<defaultTTL, tokenizer, store, ttl, idx, pc, loc, budget, u>>

(* Collection.set(data, _expectedOld): the call and its get-and-set, with  *)
(* data drawn from D and _expectedOld from E                               *)
Set(p, D, E) ==
  /\ CanCall(p)
  /\ \E data \in D, exp \in E :
       LET r == RunSet(data, exp) IN
       /\ store' = r.store2
       /\ ttl' = r.ttl2
       /\ h' = Issued(p, exp = Null /\ r.out = "ok", data.F.t = "string",
                      r.out # "config")
       /\ IF r.out = "ok" /\ r.queue # <<>>
          THEN /\ pc' = [pc EXCEPT ![p] = "pipe"]
               /\ loc' = [loc EXCEPT ![p] =
                            [NoLoc EXCEPT !.id = data.id, !.queue = r.queue,
                                          !.op = "set"]]
               /\ ev' = Event("set", SetRan(data, exp, r), "none")
          ELSE /\ UNCHANGED <<pc, loc>>
               /\ ev' = Event("set", SetRan(data, exp, r), r.out)
  /\ budget' = budget - 1
  /\ u' = Disturb
  /\ UNCHANGED <<defaultTTL, tokenizer, indexes, idx>>

(* Collection.setex(data, ttl) *)
Setex(p) ==
  /\ CanCall(p)
  /\ \E data \in Records, t \in TTLs :
       LET r == RunSetex(data, t) IN
       /\ store' = r.store2
       /\ ttl' = r.ttl2
       /\ h' = Issued(p, FALSE, data.F.t = "string", r.out = "ok")
       /\ ev' = Event("setex", NoSet, r.out)
  /\ budget' = budget - 1
  /\ u' = Disturb
  /\ UNCHANGED <<defaultTTL, tokenizer, indexes, idx, pc, loc>>

(* pipeline.exec(): the store runs the next queued command *)
Pipe(p) ==
  /\ pc[p] = "pipe"
  /\ idx' = ApplyCmd(idx, Head(loc[p].queue))
  /\ IF Tail(loc[p].queue) = <<>>
     THEN /\ pc' = [pc EXCEPT ![p] = "idle"]
          /\ loc' = [loc EXCEPT ![p] = NoLoc]
          /\ ev' = Event(loc[p].op, NoSet, "ok")
          /\ u' = IF loc[p].op = "update" THEN [u EXCEPT !.ok = @ + 1] ELSE u
     ELSE /\ loc' = [loc EXCEPT ![p].queue = Tail(@)]
          /\ ev' = Event(loc[p].op, NoSet, "none")
          /\ UNCHANGED <<pc, u>>
  /\ UNCHANGED <<defaultTTL, tokenizer, indexes, store, ttl, budget, h>>

(* Collection.update(id, fn) is called; fn increments n.  The callers     *)
(* issue at most `most` update calls.                                      *)
Update(p, most) ==
  /\ CanCall(p)
  /\ u.started < most
  /\ \E id \in Ids :
       /\ pc' = [pc EXCEPT ![p] = "upd_get"]
       /\ loc' = [loc EXCEPT ![p] = [NoLoc EXCEPT !.id = id, !.op = "update"]]
       /\ u' = IF u.started = 0
               THEN [started |-> 1, ok |-> 0,
                     base |-> IF store[id] = Null THEN 0 ELSE store[id].of.n,
                     disturbed |-> store[id] = Null]
               ELSE [u EXCEPT !.started = @ + 1]
  /\ budget' = budget - 1
  /\ h' = Issued(p, FALSE, TRUE, FALSE)
  /\ ev' = Event("update", NoSet, "none")
  /\ UNCHANGED <<defaultTTL, tokenizer, indexes, store, ttl, idx>>

(* Mutant: an update that treats a missing record like a failed write and  *)
(* reads again                                                             *)
UpdGetRetrying(p) ==
  /\ pc[p] = "upd_get"
  /\ LET data == store[loc[p].id]
         item == Decrypt(data)
     IN
     IF data = Null /\ loc[p].retry < RetryBudget
     THEN /\ pc' = pc
          /\ loc' = [loc EXCEPT ![p].retry = @ + 1]
          /\ ev' = Event("update", NoSet, "none")
     ELSE IF data = Null \/ item.threw
     THEN /\ pc' = [pc EXCEPT ![p] = "idle"]
          /\ loc' = [loc EXCEPT ![p] = NoLoc]
          /\ ev' = Thrown("update", loc[p].retry,
                          IF data = Null THEN "notfound" ELSE item.err)
     ELSE /\ pc' = [pc EXCEPT ![p] = "upd_set"]
          /\ loc' = [loc EXCEPT ![p].item = item.val]
          /\ ev' = Event("update", NoSet, "none")
  /\ UNCHANGED <<defaultTTL, tokenizer, indexes, store, ttl, idx, budget, h, u>>

(* update, lines 140-144: this.get(id) of the first attempt or of a retry *)
UpdGet(p) ==
  /\ pc[p] = "upd_get"
  /\ LET data == store[loc[p].id]
         item == Decrypt(data)
     IN
     IF data = Null \/ item.threw
     THEN /\ pc' = [pc EXCEPT ![p] = "idle"]
          /\ loc' = [loc EXCEPT ![p] = NoLoc]
          /\ ev' = Thrown("update", loc[p].retry,
                          IF data = Null THEN "notfound" ELSE item.err)
     ELSE /\ pc' = [pc EXCEPT ![p] = "upd_set"]
          /\ loc' = [loc EXCEPT ![p].item = item.val]
          /\ ev' = Event("update", NoSet, "none")
  /\ UNCHANGED <<defaultTTL, tokenizer, indexes, store, ttl, idx, budget, h, u>>

(* Mutant: one retry too many *)
AfterSetOffByOne(out, retry) ==
  IF out = "ok" THEN "return"
  ELSE IF retry <= RetryBudget THEN "retry"
  ELSE "throw"

(* What update does once this.set(updatedItem, item) has returned or thrown *)
(* with `out`: "return", "retry" or "throw"                                *)
AfterSet(out, retry) ==
  IF out = "ok" THEN "return"
  ELSE IF retry < RetryBudget THEN "retry"
  ELSE "throw"

(* update, lines 146-168: the merge and this.set(updatedItem, item) *)
UpdSet(p) ==
  /\ pc[p] = "upd_set"
  /\ LET item == loc[p].item
         updated == [item.of EXCEPT !.n = @ + 1]
         r == RunSet(updated, item)
         next == AfterSet(r.out, loc[p].retry)
     IN
     /\ store' = r.store2
     /\ ttl' = r.ttl2
     /\ CASE next = "return" /\ r.queue # <<>> ->
               /\ pc' = [pc EXCEPT ![p] = "pipe"]
               /\ loc' = [loc EXCEPT ![p].queue = r.queue, ![p].item = Null]
               /\ ev' = Event("update", SetRan(updated, item, r), "none")
               /\ u' = u
          [] next = "return" /\ r.queue = <<>> ->
               /\ pc' = [pc EXCEPT ![p] = "idle"]
               /\ loc' = [loc EXCEPT ![p] = NoLoc]
               /\ ev' = Event("update", SetRan(updated, item, r), "ok")
               /\ u' = [u EXCEPT !.ok = @ + 1]
          [] next = "retry" ->
               /\ pc' = [pc EXCEPT ![p] = "upd_get"]
               /\ loc' = [loc EXCEPT ![p].retry = @ + 1, ![p].item = Null]
               /\ ev' = Event("update", SetRan(updated, item, r), "none")
               /\ u' = u
          [] next = "throw" ->
               /\ pc' = [pc EXCEPT ![p] = "idle"]
               /\ loc' = [loc EXCEPT ![p] = NoLoc]
               /\ ev' = Event("update", SetRan(updated, item, r), "terminal")
               /\ u' = u
  /\ h' = [h EXCEPT !.wrote = TRUE]
  /\ UNCHANGED <<defaultTTL, tokenizer, indexes, idx, budget>>

(* Collection.persist(id) *)
Persist(p) ==
  /\ CanCall(p)
  /\ \E id \in Ids : ttl' = [ttl EXCEPT ![id] = {}]
  /\ budget' = budget - 1
  /\ h' = Issued(p, FALSE, TRUE, FALSE)
  /\ ev' = Event("persist", NoSet, "ok")
  /\ UNCHANGED <<defaultTTL, tokenizer, indexes, store, idx, pc, loc, u>>

(* The store drops a key whose expiry has passed *)
Expire ==
  /\ \E id \in Ids :
       /\ ttl[id] # {}
       /\ store[id] # Null
       /\ store' = [store EXCEPT ![id] = Null]
       /\ ttl' = [ttl EXCEPT ![id] = {}]
  /\ u' = Disturb
  /\ ev' = Event("expire", NoSet, "none")
  /\ UNCHANGED <<defaultTTL, tokenizer, indexes, idx, pc, loc, budget, h>>

(* Collection.get(id) *)
Get(p) ==
  /\ CanCall(p)
  /\ \E id \in Ids : ev' = ReadEvent("get", id, GetOf(store[id]))
  /\ budget' = budget - 1
  /\ UNCHANGED <<defaultTTL, tokenizer, indexes, store, ttl, idx, pc, loc, h, u>>

(* CollectionIndex.getItems(value), lines 183-186: smembers of the index   *)
(* set, and the early return when it has no members                        *)
GetItems(p) ==
  /\ CanCall(p)
  /\ \E i \in 1..Len(indexes), v \in FVals :
       LET members == idx[<<indexes[i], ToString(v)>>] IN
       IF members = {}
       THEN /\ ev' = ReadEvent("getItems", <<indexes[i], v>>, Ret({}))
            /\ UNCHANGED <<pc, loc>>
       ELSE /\ ev' = ReadEvent("getItems", <<indexes[i], v>>, NotYet)
            /\ pc' = [pc EXCEPT ![p] = "mget"]
            /\ loc' = [loc EXCEPT ![p] =
                         [NoLoc EXCEPT !.op = "getItems", !.members = members,
                                       !.arg = <<indexes[i], v>>]]
  /\ budget' = budget - 1
  /\ UNCHANGED <<defaultTTL, tokenizer, indexes, store, ttl, idx, h, u>>

(* getItems, lines 187-188: collection.getMany(members) and the filter *)
GetMany(p) ==
  /\ pc[p] = "mget"
  /\ LET items == GetManyOf(loc[p].members) IN
     ev' = ReadEvent("getItems", loc[p].arg,
                     IF items.threw THEN items
                     ELSE Ret(FilterNotNull(items.val)))
  /\ pc' = [pc EXCEPT ![p] = "idle"]
  /\ loc' = [loc EXCEPT ![p] = NoLoc]
  /\ UNCHANGED <<defaultTTL, tokenizer, indexes, store, ttl, idx, budget, h, u>>

(* A call of collection.delete(id), as the README makes it: Collection     *)
(* has no member named delete, so the call throws a TypeError and no       *)
(* command reaches the store                                               *)
Delete(p) ==
  /\ CanCall(p)
  /\ \E id \in Ids : ev' = ReadEvent("delete", id, Throw("nomethod"))
  /\ budget' = budget - 1
  /\ UNCHANGED <<defaultTTL, tokenizer, indexes, store, ttl, idx, pc, loc, h, u>>

-----------------------------------------------------------------------------
(* The whole interface, every input *)

AnyExpected == {Null} \cup {Plain(r) : r \in Records}

Next ==
  \/ AddIndex
  \/ \E p \in Procs : Set(p, Records, AnyExpected)
  \/ \E p \in Procs : Setex(p)
  \/ \E p \in Procs : Pipe(p)
  \/ \E p \in Procs : Update(p, MaxCalls)
  \/ \E p \in Procs : UpdGet(p)
  \/ \E p \in Procs : UpdSet(p)
  \/ \E p \in Procs : Persist(p)
  \/ Expire

Spec == Init /\ [][Next]_vars

(* Writers that only call set(record), on any record *)
InitIndex == Constructed(MaxIndexCalls)

NextIndex ==
  \/ AddIndex
  \/ \E p \in Procs : Set(p, Records, {Null})
  \/ \E p \in Procs : Pipe(p)
  \/ Expire

SpecIndex == InitIndex /\ [][NextIndex]_vars

(* Callers of update, and writers that set one fixed record *)
Fresh == [id |-> "a", F |-> Str1, n |-> 0]

InitUpdate == Constructed(MaxUpdateCalls)

NextUpdate ==
  \/ AddIndex
  \/ \E p \in Procs : Set(p, {Fresh}, {Null})
  \/ \E p \in Procs : Pipe(p)
  \/ \E p \in Procs : Update(p, MaxUpdateCalls)
  \/ \E p \in Procs : UpdGet(p)
  \/ \E p \in Procs : UpdSet(p)
  \/ Expire

SpecUpdate == InitUpdate /\ [][NextUpdate]_vars

(* A few update calls against many writers that set the fixed record *)
InitRetry == Constructed(MaxRetryCalls)

NextRetry ==
  \/ AddIndex
  \/ \E p \in Procs : Set(p, {Fresh}, {Null})
  \/ \E p \in Procs : Pipe(p)
  \/ \E p \in Procs : Update(p, MaxRetryUpdates)
  \/ \E p \in Procs : UpdGet(p)
  \/ \E p \in Procs : UpdSet(p)
  \/ Expire

SpecRetry == InitRetry /\ [][NextRetry]_vars

(* Writers and readers *)
InitRead == Constructed(MaxReadCalls)

NextRead ==
  \/ AddIndex
  \/ \E p \in Procs : Set(p, Records, AnyExpected)
  \/ \E p \in Procs : Setex(p)
  \/ \E p \in Procs : Pipe(p)
  \/ \E p \in Procs : Get(p)
  \/ \E p \in Procs : GetItems(p)
  \/ \E p \in Procs : GetMany(p)
  \/ \E p \in Procs : Delete(p)
  \/ Expire

SpecRead == InitRead /\ [][NextRead]_vars

-----------------------------------------------------------------------------
(* CollectionIndex.getItems reads the set `idx_<field>:<value>`: the ids   *)
(* that are members of the index set of field f keyed by string k          *)
Members(f, k) == idx[<<f, k>>]

(* The id of the record stored at `id` is a member of the index set keyed  *)
(* by the record's current value of every registered field, and of no      *)
(* other index set of that field                                           *)
IndexedExactly(id) ==
  \A i \in 1..Len(indexes) :
    \A k \in Keys :
      k[1] = indexes[i] =>
        (id \in idx[k] <=> k = IndexKey(indexes[i], store[id].of))

IndexInvariant == \A id \in Ids : store[id] # Null => IndexedExactly(id)

(* C1: on a Collection without default TTL whose indexes were registered   *)
(* before any write, after set calls that ran one after another, each to   *)
(* successful completion and without expectedPrevious, every stored        *)
(* record's id is in the index set of its current value and in no other.   *)
C1_SingleWriterIndexInvariant ==
  (defaultTTL = {} /\ AllIdle /\ h.plain /\ ~h.overlap) => IndexInvariant

(* C2: on such a Collection, once concurrent set calls that wrote          *)
(* different string values of the indexed field have all completed         *)
(* successfully, the index sets are consistent with the stored record.     *)
C2_ConcurrentWritersIndexInvariant ==
  (defaultTTL = {} /\ AllIdle /\ h.plain /\ h.strOnly) => IndexInvariant

(* The step ran Collection.set (called directly or by update) on this id *)
RanSetOn(id) == ev'.set.ran /\ ev'.set.data.id = id

(* C3: whatever the configuration, set(R, expectedPrevious) succeeds when  *)
(* expectedPrevious is deep-equal to the record stored just before the     *)
(* write, and fails with a concurrent-update error when it is not.         *)
C3_ExpectedPreviousDecides ==
  [][\A id \in Ids :
       (RanSetOn(id) /\ ev'.set.exp # Null) =>
          IF IsEqual(Stored(id), ev'.set.exp)
          THEN ev'.set.out = "ok"
          ELSE ev'.set.out = "concurrent"]_vars

(* C4: from a stored record with n = v, when two update calls that each    *)
(* increment n have both returned successfully and nothing else wrote the  *)
(* record meanwhile, the stored n is v + 2.                                *)
C4_TwoUpdatesBothCounted ==
  \A id \in Ids :
    (AllIdle /\ u.started = 2 /\ u.ok = 2 /\ ~u.disturbed /\ store[id] # Null)
      => store[id].of.n = u.base + 2

(* The same on Collections without default TTL *)
C4_TwoUpdatesBothCounted_NoTTL ==
  defaultTTL = {} => C4_TwoUpdatesBothCounted

(* C5: when set(R, expectedPrevious) fails with a concurrent-update error  *)
(* on an indexed Collection, the stored token at R.id has been replaced by *)
(* R and the call has issued no sadd and no srem.                          *)
C5_RejectedSetWritesButSkipsIndexes ==
  [][\A id \in Ids :
       (RanSetOn(id) /\ ev'.set.out = "concurrent" /\ indexes # <<>>) =>
          /\ store'[id] = Encrypt(Plain(ev'.set.data))
          /\ ev'.set.queued = 0
          /\ idx' = idx
          /\ \A p \in Procs : pc'[p] = "pipe" => pc[p] = "pipe"]_vars

C5_Witness ==
  ev.set.ran /\ ev.set.out = "concurrent" /\ indexes # <<>>

(* The caller whose update ran its set in this step *)
UpdSetBy(p) == pc[p] = "upd_set" /\ pc'[p] # "upd_set" /\ ev'.set.ran

(* Progress of the call in flight at a caller: the retries made, then the  *)
(* position within the current cycle                                       *)
CycleLen == 2 + 2 * MaxIndexes

Rank(at, l) ==
  l.retry * CycleLen +
    (CASE at = "upd_get" -> 0
       [] at = "upd_set" -> 1
       [] at = "pipe" -> CycleLen - Len(l.queue)
       [] OTHER -> 0)

(* C6: every update call terminates: each of its steps is enabled and      *)
(* moves it forward in a bounded order; it runs its read-merge-write cycle *)
(* at most 1 + RetryBudget times, and throws the terminal error exactly    *)
(* when the last of these cycles fails.                                    *)
C6_BoundedRetry ==
  /\ [](\A p \in Procs :
          /\ loc[p].retry <= RetryBudget
          /\ Rank(pc[p], loc[p]) < (RetryBudget + 1) * CycleLen
          /\ pc[p] # "idle" => ENABLED (UpdGet(p) \/ UpdSet(p) \/ Pipe(p)))
  /\ [][\A p \in Procs :
          /\ (pc[p] # "idle" /\ <<pc[p], loc[p]>>' # <<pc[p], loc[p]>>) =>
                (pc'[p] = "idle" \/ Rank(pc'[p], loc'[p]) > Rank(pc[p], loc[p]))
          /\ UpdSetBy(p) =>
               /\ (loc[p].retry = RetryBudget /\ ev'.set.out = "concurrent")
                     => (ev'.ret = "terminal" /\ pc'[p] = "idle")
               /\ ev'.ret = "terminal"
                     => (loc[p].retry = RetryBudget /\ ev'.set.out # "ok")
               /\ pc'[p] = "upd_get"
                     => loc'[p].retry = loc[p].retry + 1]_vars

(* An update has just thrown the terminal error on a Collection without    *)
(* encryption, where a cycle can only fail with a concurrent-update error: *)
(* all of its 1 + RetryBudget cycles did                                   *)
C6_Witness ==
  /\ ev.op = "update" /\ ev.ret = "terminal" /\ ev.set.out = "concurrent"
  /\ ~tokenizer

(* C7: update retries, and turns into the terminal error, only             *)
(* concurrent-update errors; any other error thrown by the write ends the  *)
(* call at once and reaches the caller as it is.                           *)
C7_OtherErrorsPropagate ==
  [][\A p \in Procs :
       (UpdSetBy(p) /\ ev'.set.out \notin {"ok", "concurrent"}) =>
          (pc'[p] = "idle" /\ ev'.ret = ev'.set.out)]_vars

C9_SetexRefusedWhenIndexed ==
  [][(ev'.op = "setex" /\ indexes # <<>>) =>
        /\ ev'.ret = "config"
        /\ store' = store
        /\ ttl' = ttl
        /\ idx' = idx]_vars

C9_Witness ==
  ev.op = "setex" /\ ev.ret = "config" /\ indexes # <<>>

(* C10: on every Collection, a set call leaves the expiry of an existing   *)
(* key as it was: a key with an expiry keeps it, a persisted key stays     *)
(* permanent.                                                              *)
C10_SetKeepsExpiry ==
  [][\A id \in Ids :
       (RanSetOn(id) /\ store[id] # Null) => ttl'[id] = ttl[id]]_vars

(* C10 as amended: on a Collection without default TTL a set call leaves   *)
(* the expiry of every key as it was; on a Collection with a default TTL   *)
(* a set call gives the key it writes the default TTL.                     *)
C10_SetKeepsExpiryUnlessDefaultTTL ==
  [][\A id \in Ids :
       RanSetOn(id) =>
          IF defaultTTL = {}
          THEN ttl' = ttl
          ELSE ev'.set.out = "ok" => ttl'[id] = defaultTTL]_vars

(* A set has just written a key that carries an expiry given by setex, on  *)
(* a Collection without default TTL                                        *)
C10_Witness ==
  \E id \in Ids :
    ev.set.ran /\ ev.set.data.id = id /\ defaultTTL = {} /\ ttl[id] # {}

(* C11: on a Collection with no indexes and encryption disabled, whatever  *)
(* the key held before, a get(R.id) that directly follows a completed      *)
(* set(R) returns a value deep-equal to R.                                 *)
C11_RoundTripPlain ==
  [][(/\ ev'.op = "get"
      /\ ev.set.ran /\ ev.set.out = "ok" /\ ev.set.data.id = ev'.arg
      /\ indexes = <<>> /\ ~tokenizer) =>
        (ev'.ret = "ok" /\ IsEqual(ev'.val, Plain(ev.set.data)))]_vars

(* A get has just returned the record that overwrote another one *)
C11_Witness ==
  /\ ev.op = "get" /\ ev.ret = "ok" /\ ev.val # Null
  /\ indexes = <<>> /\ ~tokenizer /\ budget <= MaxReadCalls - 2
  /\ h.wrote

(* C12: on a Collection with encryption enabled, whether or not the key    *)
(* held a value before, set(R) completes successfully, the token then held *)
(* at R.id is an encoded token different from R's plain value, and a       *)
(* get(R.id) that directly follows returns a value deep-equal to R.        *)
C12_RoundTripEncrypted ==
  [][/\ \A id \in Ids :
          (tokenizer /\ RanSetOn(id) /\ ev'.set.exp = Null) =>
             /\ ev'.set.out = "ok"
             /\ store'[id] = ToToken(Plain(ev'.set.data))
             /\ store'[id] # Plain(ev'.set.data)
     /\ (/\ ev'.op = "get" /\ tokenizer
         /\ ev.set.ran /\ ev.set.out = "ok" /\ ev.set.data.id = ev'.arg) =>
           (ev'.ret = "ok" /\ IsEqual(ev'.val, Plain(ev.set.data)))]_vars

(* The same without the demand that set completes successfully *)
C12_OpaqueAndReadable ==
  [][/\ \A id \in Ids :
          (tokenizer /\ RanSetOn(id) /\ ev'.set.exp = Null) =>
             /\ store'[id] = ToToken(Plain(ev'.set.data))
             /\ store'[id] # Plain(ev'.set.data)
     /\ (/\ ev'.op = "get" /\ tokenizer
         /\ ev.set.ran /\ ev.set.out = "ok" /\ ev.set.data.id = ev'.arg) =>
           (ev'.ret = "ok" /\ IsEqual(ev'.val, Plain(ev.set.data)))]_vars

(* C13: getItems(v) returns the empty sequence, without error, when the    *)
(* index set of v has no member; otherwise it returns exactly the records  *)
(* stored, at the time of its read of the records, under the ids it found  *)
(* in the index set of v: a member whose record is absent is left out and  *)
(* yields neither a not-found entry nor an error.                          *)
C13_GetItemsToleratesDrift ==
  [][/\ (ev'.op = "getItems" /\ ~\E p \in Procs : pc[p] = "mget" /\ pc'[p] # "mget")
          => IF Members(ev'.arg[1], ToString(ev'.arg[2])) = {}
             THEN ev'.ret = "ok" /\ ev'.val = {} /\ pc' = pc
             ELSE ev'.ret = "none" /\ pc' # pc
     /\ \A p \in Procs :
          (pc[p] = "mget" /\ pc'[p] # "mget") =>
             /\ ev'.ret = "ok"
             /\ Null \notin ev'.val
             /\ ev'.val = {Stored(id) :
                             id \in {m \in loc[p].members : store[m] # Null}}]_vars

(* getItems has just returned nothing for a value whose index set has a    *)
(* member: the member's record is absent from the store                    *)
C13_Witness ==
  /\ ev.op = "getItems" /\ ev.ret = "ok" /\ ev.val = {}
  /\ Members(ev.arg[1], ToString(ev.arg[2])) # {}

(* C14: Collection exposes delete(id): the call completes, leaves every    *)
(* index set as it was, and a get(id) that directly follows returns        *)
(* not-found.                                                              *)
C14_DeleteRemovesRecordOnly ==
  [][/\ ev'.op = "delete" =>
          (ev'.ret = "ok" /\ store'[ev'.arg] = Null /\ idx' = idx)
     /\ (ev'.op = "get" /\ ev.op = "delete" /\ ev.arg = ev'.arg) =>
          (ev'.ret = "ok" /\ ev'.val = Null)]_vars

(* The set that ran in this step overwrote a record whose value of field f *)
(* renders the same index key as the value written, and whose id was a     *)
(* member of the index set of that key                                     *)
OverwroteSameKey(id, f) ==
  /\ RanSetOn(id) /\ ev'.set.out = "ok"
  /\ store[id] # Null
  /\ IndexKey(f, Stored(id).of) = IndexKey(f, ev'.set.data)
  /\ id \in idx[IndexKey(f, ev'.set.data)]

(* C15: when set(R') overwrites a stored record R of the same id and R'.F  *)
(* has the same value as R.F for an indexed field F (the same structure,   *)
(* or the same index key), the call queues no remove for F, and no command *)
(* of its pipeline takes R.id out of the index set keyed by that value.    *)
C15_UnchangedFieldKeepsMembership ==
  [][\A p \in Procs :
       /\ \A i \in 1..Len(indexes) :
            (pc[p] = "idle" /\ pc'[p] = "pipe"
               /\ OverwroteSameKey(loc'[p].id, indexes[i])) =>
              \A j \in 1..Len(loc'[p].queue) :
                 ~(/\ loc'[p].queue[j].cmd = "srem"
                   /\ loc'[p].queue[j].key[1] = indexes[i])
       /\ (pc[p] = "pipe" /\ ~h.overlap /\ store[loc[p].id] # Null) =>
            \A i \in 1..Len(indexes) :
               LET k == IndexKey(indexes[i], Stored(loc[p].id).of) IN
               loc[p].id \in idx[k] => loc[p].id \in idx'[k]]_vars

(* The id is a member of some index set of field f *)
InSomeSet(id, f) == \E k \in Keys : k[1] = f /\ id \in idx[k]

(* The ordering inside one set call: the step that applies the primary     *)
(* write issues no index command, and in the pipeline handed to exec every *)
(* add precedes every remove                                               *)
C16_Ordering ==
  [][/\ \A id \in Ids :
          RanSetOn(id) =>
             (store'[id] = Encrypt(Plain(ev'.set.data)) /\ idx' = idx)
     /\ \A p \in Procs :
          (pc[p] # "pipe" /\ pc'[p] = "pipe") =>
             \A i, j \in 1..Len(loc'[p].queue) :
                (loc'[p].queue[i].cmd = "srem" /\ loc'[p].queue[j].cmd = "sadd")
                   => j < i]_vars

(* C16: in one set call on an indexed Collection the primary write is      *)
(* applied before any index command of the call and every add precedes     *)
(* every remove; hence with a single writer no step of a set call takes    *)
(* the id of a stored record out of the index sets of a registered field   *)
(* F altogether.                                                           *)
C16_OrderingKeepsIdIndexed ==
  /\ C16_Ordering
  /\ [][\A id \in Ids : \A i \in 1..Len(indexes) :
          (~h.overlap /\ store[id] # Null /\ InSomeSet(id, indexes[i]))
             => InSomeSet(id, indexes[i])']_vars

(* C17: when no record is stored at id at the read of an update attempt    *)
(* (the first or a retry), update throws the not-found error, writes       *)
(* neither the stored token nor an index set in that attempt, and ends     *)
(* without a retry.                                                        *)
C17_UpdateAbsentNotFound ==
  [][\A p \in Procs :
       (/\ pc[p] = "upd_get" /\ <<pc[p], loc[p]>>' # <<pc[p], loc[p]>>
        /\ store[loc[p].id] = Null) =>
          /\ ev'.op = "update" /\ ev'.ret = "notfound"
          /\ ev'.retry = loc[p].retry
          /\ pc'[p] = "idle" /\ loc'[p] = NoLoc
          /\ store' = store /\ ttl' = ttl /\ idx' = idx]_vars

(* An update has just thrown not-found at the read of a retry: the record  *)
(* expired after the attempt before failed                                 *)
C17_Witness ==
  ev.op = "update" /\ ev.ret = "notfound" /\ ev.retry > 0

(* C18: from a stored record with n = v, once any number of update calls   *)
(* that each increment n, issued by concurrent callers, have all returned  *)
(* and nothing else wrote the record meanwhile, the stored n is v plus the *)
(* number of update calls that returned successfully.                      *)
C18_NoLostUpdate ==
  \A id \in Ids :
    (AllIdle /\ u.started >= 1 /\ ~u.disturbed /\ store[id] # Null)
      => store[id].of.n = u.base + u.ok

(* C18 on Collections without default TTL and without encryption, where   *)
(* every set runs the check of expectedPrevious: once all update calls     *)
(* have returned, the stored n is v plus the number of successful calls.   *)
C18_NoLostUpdate_Plain ==
  (defaultTTL = {} /\ ~tokenizer) => C18_NoLostUpdate

(* What getItems(v) of the index on field f returns when it runs with no   *)
(* other call in flight: smembers, the early return, getMany, the filter   *)
GetItemsNow(f, v) ==
  LET members == Members(f, ToString(v)) IN
  IF members = {} THEN Ret({})
  ELSE LET items == GetManyOf(members) IN
       IF items.threw THEN items ELSE Ret(FilterNotNull(items.val))

(* C19: in every state reached by set calls in any interleaving, when no   *)
(* call is in flight every record that getItems(v) of the index on field F *)
(* returns has a current value of F that is v (that renders the index key  *)
(* of v).                                                                  *)
C19_GetItemsOnlyMatching ==
  AllIdle =>
    \A i \in 1..Len(indexes) : \A v \in FVals :
       LET got == GetItemsNow(indexes[i], v) IN
       /\ ~got.threw
       /\ \A r \in got.val : ToString(r.of[indexes[i]]) = ToString(v)

(* C19 for set calls that ran one after another, without expectedPrevious  *)
(* and on indexes registered before the first write                        *)
C19_SequentialOnlyMatching ==
  (h.plain /\ ~h.overlap) => C19_GetItemsOnlyMatching

(* Collection.set, lines 74-117, on a Collection built without            *)
(* enableEncryption, where decrypt returns its argument: the outcome and   *)
(* the pipeline for the previous record prev                               *)
SetCoreUnencrypted(prev, data, exp) ==
  IF exp # Null /\ ~IsEqual(prev, exp)
  THEN [out |-> "concurrent", queue |-> <<>>]
  ELSE IF indexes = <<>> THEN [out |-> "ok", queue |-> <<>>]
  ELSE
    LET adds == [i \in 1..Len(indexes) |->
                   Sadd(IndexKey(indexes[i], data), data.id)]
        changed == SelectSeq(indexes,
                     LAMBDA f : StrictNotEqual(prev.of[f], data[f]))
        rems == [i \in 1..Len(changed) |->
                   Srem(IndexKey(changed[i], prev.of), data.id)]
    IN
    IF prev = Null THEN [out |-> "ok", queue |-> adds]
    ELSE [out |-> "ok", queue |-> adds \o rems]

(* C20: on an indexed Collection every set call has the same outcome       *)
(* (success or the same error) and hands the same index commands to the    *)
(* store with encryption enabled as a Collection with encryption disabled  *)
(* has on the same stored record.                                          *)
C20_IndexingIgnoresEncryption ==
  [][\A id \in Ids :
       (RanSetOn(id) /\ indexes # <<>>) =>
          LET twin == SetCoreUnencrypted(Stored(id), ev'.set.data, ev'.set.exp)
          IN
          /\ ev'.set.out = twin.out
          /\ ev'.set.queued = Len(twin.queue)
          /\ \A p \in Procs :
                (pc[p] # "pipe" /\ pc'[p] = "pipe") => loc'[p].queue = twin.queue]_vars

(* The same, stated of Collections with encryption disabled only *)
C20_UnencryptedTwin ==
  [][\A id \in Ids :
       (RanSetOn(id) /\ indexes # <<>> /\ ~tokenizer) =>
          LET twin == SetCoreUnencrypted(Stored(id), ev'.set.data, ev'.set.exp)
          IN
          /\ ev'.set.out = twin.out
          /\ \A p \in Procs :
                (pc[p] # "pipe" /\ pc'[p] = "pipe") => loc'[p].queue = twin.queue]_vars

====
